---- MODULE Spec2Model ----
(***************************************************************************)
(* Mantis: the CPU array kernels (src/src/array.rs, enum CpuArray over     *)
(* ndarray's ArrayD) and the backend dispatcher (src/src/backend.rs,       *)
(* impl Data for BackendData).                                             *)
(*                                                                         *)
(* An array is a record [dtype, shape, data]; data maps every multi-index  *)
(* of the shape (0-based, as in ndarray) to its element.  f32 elements are *)
(* small integers, on which f32 arithmetic is exact; the results of exp    *)
(* and of an inexact division are kept as terms ([exp |-> x],              *)
(* [num |-> n, den |-> d]).  A call ends in one outcome: Some/None for an  *)
(* Option, Ok/Err for a Result, Unit, Vec, or Panic when the thread        *)
(* unwinds out of the call.  The ndarray operations are those of ndarray   *)
(* 0.15 and later, whose operators on two references broadcast both        *)
(* operands to their common shape.                                         *)
(***************************************************************************)
EXTENDS Integers, Sequences, FiniteSets, TLC

VARIABLES self, pre, rhs, op, arg, res

vars == <<self, pre, rhs, op, arg, res>>

(* Bounds of the explored inputs: the rank and the number of elements of   *)
(* an array, and the number of element patterns beyond the first.          *)
MaxRank == 3
MaxSize == 6
MaxSeed == 1

----------------------------------------------------------------------------
(* Outcomes of a call. *)

NoVal == [tag |-> "NoVal"]
Some(v) == [kind |-> "Some", val |-> v, msg |-> ""]
None == [kind |-> "None", val |-> NoVal, msg |-> ""]
Ok(v) == [kind |-> "Ok", val |-> v, msg |-> ""]
Err(m) == [kind |-> "Err", val |-> NoVal, msg |-> m]
Panic(m) == [kind |-> "Panic", val |-> NoVal, msg |-> m]
Unit == [kind |-> "Unit", val |-> NoVal, msg |-> ""]
Vec(s) == [kind |-> "Vec", val |-> s, msg |-> ""]

----------------------------------------------------------------------------
(* Shapes, indices, element arithmetic. *)

Abs(x) == IF x < 0 THEN -x ELSE x
Max2(x, y) == IF x >= y THEN x ELSE y

RECURSIVE Gcd(_, _)
Gcd(x, y) == IF y = 0 THEN x ELSE Gcd(y, x % y)

RECURSIVE Prod(_)
Prod(s) == IF s = <<>> THEN 1 ELSE Head(s) * Prod(Tail(s))

(* All multi-indices of a shape. *)
RECURSIVE Idx(_)
Idx(s) ==
  IF s = <<>> THEN {<<>>}
  ELSE {<<i>> \o t : i \in 0..(Head(s) - 1), t \in Idx(Tail(s))}

(* Row-major offset of idx in a shape. *)
RECURSIVE Lin(_, _)
Lin(s, idx) ==
  IF s = <<>> THEN 0
  ELSE Head(idx) * Prod(Tail(s)) + Lin(Tail(s), Tail(idx))

RemoveAt(s, k) == [j \in 1..(Len(s) - 1) |-> IF j < k THEN s[j] ELSE s[j + 1]]
InsertAt(s, k, v) ==
  [j \in 1..(Len(s) + 1) |-> IF j < k THEN s[j] ELSE IF j = k THEN v ELSE s[j - 1]]
Reverse(s) == [j \in 1..Len(s) |-> s[Len(s) + 1 - j]]

RECURSIVE SumSet(_, _)
SumSet(f, S) ==
  IF S = {} THEN 0
  ELSE LET x == CHOOSE y \in S : TRUE IN f[x] + SumSet(f, S \ {x})

RECURSIVE InsertSorted(_, _)
InsertSorted(s, v) ==
  IF s = <<>> THEN <<v>>
  ELSE IF v <= Head(s) THEN <<v>> \o s
  ELSE <<Head(s)>> \o InsertSorted(Tail(s), v)

(* Vec::sort: ascending. *)
RECURSIVE Sort(_)
Sort(s) == IF s = <<>> THEN <<>> ELSE InsertSorted(Sort(Tail(s)), Head(s))

(* usize::saturating_sub *)
SaturatingSub(v, i) == IF v >= i THEN v - i ELSE 0

(* f32 arithmetic on the modelled elements. *)
Fadd(x, y) == x + y
Fsub(x, y) == x - y
Fmul(x, y) == x * y
Fdiv(x, y) ==
  IF y # 0 /\ x % Abs(y) = 0
  THEN (IF y < 0 THEN (-x) \div (-y) ELSE x \div y)
  ELSE LET g == Gcd(Abs(x), Abs(y))
           sg == IF y < 0 THEN -1 ELSE 1
       IN IF y = 0
          THEN [num |-> (IF x > 0 THEN 1 ELSE IF x < 0 THEN -1 ELSE 0), den |-> 0]
          ELSE [num |-> sg * (x \div g), den |-> Abs(y) \div g]
Fmax0(x) == IF x > 0 THEN x ELSE 0
Fexp(x) == [exp |-> x]

(* The element operation a kernel passes to ndarray, by name. *)
Apply2(f, x, y) ==
  CASE f = "add" -> Fadd(x, y)
    [] f = "sub" -> Fsub(x, y)
    [] f = "mul" -> Fmul(x, y)
    [] f = "div" -> Fdiv(x, y)
Apply1(f, x) ==
  CASE f = "max0" -> Fmax0(x)
    [] f = "exp" -> Fexp(x)

(* `value as f32`: exact up to 2^24, round-to-nearest-even on the 2-spaced *)
(* grid up to 2^25.                                                        *)
AsF32(v) ==
  LET m == Abs(v)
      sg == IF v < 0 THEN -1 ELSE 1
  IN IF m <= 16777216 THEN v
     ELSE IF m % 2 = 0 THEN v
     ELSE IF ((m - 1) \div 2) % 2 = 0 THEN sg * (m - 1) ELSE sg * (m + 1)

----------------------------------------------------------------------------
(* ndarray primitives used by the kernels. *)

Arr(dtype, shape, data) == [dtype |-> dtype, shape |-> shape, data |-> data]
Rank(a) == Len(a.shape)

(* Array::from_elem / zeros / ones *)
FromElem(dtype, shape, v) == Arr(dtype, shape, [i \in Idx(shape) |-> v])

(* dimension::broadcast::co_broadcast: right-aligned, extents equal or 1. *)
Padded(s, n) == [k \in 1..n |-> IF k <= n - Len(s) THEN 1 ELSE s[k - (n - Len(s))]]
CoBroadcastOk(s1, s2) ==
  LET n == Max2(Len(s1), Len(s2))
      p1 == Padded(s1, n)
      p2 == Padded(s2, n)
  IN \A k \in 1..n : p1[k] = p2[k] \/ p1[k] = 1 \/ p2[k] = 1
CoBroadcastShape(s1, s2) ==
  LET n == Max2(Len(s1), Len(s2))
      p1 == Padded(s1, n)
      p2 == Padded(s2, n)
  IN [k \in 1..n |-> IF p1[k] = 1 THEN p2[k] ELSE p1[k]]

(* The index into an array of shape s that a broadcast index reads. *)
BroadcastIdx(s, idx) ==
  [k \in 1..Len(s) |-> IF s[k] = 1 THEN 0 ELSE idx[k + (Len(idx) - Len(s))]]

(* ArrayBase::broadcast: s broadcasts to the target shape t. *)
BroadcastsTo(s, t) ==
  /\ Len(s) <= Len(t)
  /\ \A k \in 1..Len(s) : s[k] = t[k + (Len(t) - Len(s))] \/ s[k] = 1

(* impl Add/Sub/Mul/Div<&ArrayBase> for &ArrayBase: broadcast_with(rhs)     *)
(* .unwrap(), then Zip::map_collect.                                        *)
Elementwise(f, a, b) ==
  IF ~CoBroadcastOk(a.shape, b.shape)
  THEN Panic("broadcast_with: unwrap on ShapeError IncompatibleShape")
  ELSE LET s == CoBroadcastShape(a.shape, b.shape)
       IN Ok(Arr(a.dtype, s,
                 [i \in Idx(s) |-> Apply2(f, a.data[BroadcastIdx(a.shape, i)],
                                        b.data[BroadcastIdx(b.shape, i)])]))

(* ArrayBase::mapv *)
Mapv(f, a) == Arr(a.dtype, a.shape, [i \in Idx(a.shape) |-> Apply1(f, a.data[i])])

(* ArrayBase::sum *)
SumAll(a) == SumSet(a.data, Idx(a.shape))

(* ArrayBase::sum_axis(Axis(ax)); ax is 0-based. *)
SumAxisOk(a, ax) == ax < Rank(a)
SumAxis(a, ax) ==
  LET s == RemoveAt(a.shape, ax + 1)
      n == a.shape[ax + 1]
  IN Arr(a.dtype, s,
         [i \in Idx(s) |->
            SumSet([j \in 0..(n - 1) |-> a.data[InsertAt(i, ax + 1, j)]], 0..(n - 1))])

(* ArrayBase::reversed_axes *)
ReversedAxes(a) ==
  LET s == Reverse(a.shape)
  IN Arr(a.dtype, s, [i \in Idx(s) |-> a.data[Reverse(i)]])

(* Dot for Ix1 x Ix1 and Ix2 x Ix2 (the operands already have that rank). *)
Dot1Ok(l, r) == l.shape[1] = r.shape[1]
Dot1(l, r) ==
  LET n == l.shape[1]
  IN SumSet([k \in 0..(n - 1) |-> Fmul(l.data[<<k>>], r.data[<<k>>])], 0..(n - 1))
Dot2Ok(l, r) == l.shape[2] = r.shape[1]
Dot2(l, r) ==
  LET m == l.shape[1]
      kk == l.shape[2]
      n == r.shape[2]
      s == <<m, n>>
  IN Arr(l.dtype, s,
         [i \in Idx(s) |->
            SumSet([k \in 0..(kk - 1) |->
                      Fmul(l.data[<<i[1], k>>], r.data[<<k, i[2]>>])], 0..(kk - 1))])

----------------------------------------------------------------------------
(* src/src/array.rs: impl CpuArray.  An array's dtype is its variant. *)

BothF32(a, b) == a.dtype = "F32" /\ b.dtype = "F32"

CpuArray_zeros(shape, dtype) == FromElem(dtype, shape, 0)

CpuArray_ones(shape, dtype) == FromElem(dtype, shape, 1)

CpuArray_fill(value, shape, dtype) ==
  IF dtype = "F32" THEN FromElem("F32", shape, AsF32(value))
  ELSE FromElem("F64", shape, value)

(* Option<Self> of add/sub/mul/div: Some of ndarray's elementwise result,  *)
(* whose broadcast failure unwinds.                                        *)
Binary(f, a, b) ==
  IF BothF32(a, b)
  THEN LET r == Elementwise(f, a, b)
       IN IF r.kind = "Panic" THEN r ELSE Some(r.val)
  ELSE None

CpuArray_add(a, b) == Binary("add", a, b)
CpuArray_sub(a, b) == Binary("sub", a, b)
CpuArray_mul(a, b) == Binary("mul", a, b)
CpuArray_div(a, b) == Binary("div", a, b)

(* A kernel that multiplies the rank-2 operands elementwise, not by dot. *)
CpuArray_matmul_elementwise(l, r) ==
  IF BothF32(l, r) /\ Rank(l) = 1 /\ Rank(l) = 1
  THEN IF Rank(r) # 1
       THEN Panic("into_dimensionality Ix1: unwrap on ShapeError")
       ELSE IF ~Dot1Ok(l, r)
       THEN Panic("ndarray: inputs are not compatible for dot product")
       ELSE Ok(FromElem("F32", <<1>>, Dot1(l, r)))
  ELSE IF BothF32(l, r) /\ Rank(l) = 2 /\ Rank(l) = 2
  THEN IF Rank(r) # 2
       THEN Panic("into_dimensionality Ix2: unwrap on ShapeError")
       ELSE Elementwise("mul", l, r)
  ELSE Err("Cannot MatMul for the provided data types")

(* The guards of the two arms read l.ndim() on both sides of &&. *)
MatmulArm1(l, r) == Rank(l) = 1 /\ Rank(l) = 1
MatmulArm2(l, r) == Rank(l) = 2 /\ Rank(l) = 2

CpuArray_matmul(l, r) ==
  IF BothF32(l, r) /\ MatmulArm1(l, r)
  THEN IF Rank(r) # 1
       THEN Panic("into_dimensionality Ix1: unwrap on ShapeError")
       ELSE IF ~Dot1Ok(l, r)
       THEN Panic("ndarray: inputs are not compatible for dot product")
       ELSE Ok(FromElem("F32", <<1>>, Dot1(l, r)))
  ELSE IF BothF32(l, r) /\ MatmulArm2(l, r)
  THEN IF Rank(r) # 2
       THEN Panic("into_dimensionality Ix2: unwrap on ShapeError")
       ELSE IF ~Dot2Ok(l, r)
       THEN Panic("ndarray: inputs are not compatible for matrix multiplication")
       ELSE Ok(Dot2(l, r))
  ELSE Err("Cannot MatMul for the provided data types")

CpuArray_relu(a) ==
  IF a.dtype = "F32" THEN Ok(Mapv("max0", a))
  ELSE Err("Cannot ReLU for the provided data types")

CpuArray_exp(a) ==
  IF a.dtype = "F32" THEN Ok(Mapv("exp", a))
  ELSE Err("Cannot exp for the provided data types")

(* The sorted axes used as they are, without the shift. *)
ShiftedAxes_unshifted(axes) == axes

(* axes.iter().enumerate().map(|(i, &value)| value.saturating_sub(i)) *)
ShiftedAxes(axes) == [i \in 1..Len(axes) |-> SaturatingSub(axes[i], i - 1)]

(* for axis in &shifted_axes { summed_arr = summed_arr.sum_axis(..) } *)
RECURSIVE SumAxes(_, _)
SumAxes(arr, axes) ==
  IF axes = <<>> THEN Ok(arr)
  ELSE IF ~SumAxisOk(arr, Head(axes))
  THEN Panic("sum_axis: axis out of bounds")
  ELSE SumAxes(SumAxis(arr, Head(axes)), Tail(axes))

(* A sum whose empty-dims arm returns the total as a rank-0 array. *)
CpuArray_sum_scalar(a, dims) ==
  IF a.dtype = "F32" /\ dims = <<>>
  THEN Ok(FromElem("F32", <<>>, SumAll(a)))
  ELSE IF a.dtype = "F32"
  THEN SumAxes(a, ShiftedAxes(Sort(dims)))
  ELSE Err("Not able to sum all fields for data type")

CpuArray_sum(a, dims) ==
  IF a.dtype = "F32" /\ dims = <<>>
  THEN Ok(FromElem("F32", <<1>>, SumAll(a)))
  ELSE IF a.dtype = "F32"
  THEN SumAxes(a, ShiftedAxes(Sort(dims)))
  ELSE Err("Not able to sum all fields for data type")

CpuArray_transpose(a) ==
  IF a.dtype = "F32" THEN Ok(ReversedAxes(a))
  ELSE Err("Cannot exp for the provided data types")

(* NumCast::from(n) for the target type T of get::<T>. *)
NumCastFrom(n, T) ==
  IF T = "u8" THEN (IF n >= 0 /\ n <= 255 THEN Some(n) ELSE None)
  ELSE Some(n)

CpuArray_get(a, index, T) ==
  IF a.dtype = "F32" /\ index \in Idx(a.shape)
  THEN NumCastFrom(a.data[index], T)
  ELSE None

(* arr1.assign(arr2): arr2 is broadcast to arr1's shape, or the call      *)
(* unwinds before anything is written.  Yields the new self and the       *)
(* outcome.                                                                *)
CpuArray_copy_from(a, other) ==
  IF BothF32(a, other)
  THEN IF BroadcastsTo(other.shape, a.shape)
       THEN [self |-> Arr("F32", a.shape,
                          [i \in Idx(a.shape) |->
                             other.data[BroadcastIdx(other.shape, i)]]),
             out |-> Unit]
       ELSE [self |-> a, out |-> Panic("ndarray: could not broadcast array")]
  ELSE [self |-> a, out |-> Unit]

CpuArray_shape(a) == a.shape

----------------------------------------------------------------------------
(* src/src/backend.rs: impl Data for BackendData. *)

Cpu(a) == [tag |-> "Cpu", arr |-> a]
Metal == [tag |-> "Metal", arr |-> NoVal]
BothCpu(s, r) == s.tag = "Cpu" /\ r.tag = "Cpu"

BackendData_zeros(s, shape, dtype) ==
  IF s.tag = "Cpu" THEN Cpu(CpuArray_zeros(shape, dtype)) ELSE Metal

BackendData_ones(s, shape, dtype) ==
  IF s.tag = "Cpu" THEN Cpu(CpuArray_zeros(shape, dtype)) ELSE Metal

(* Some(Cpu(kernel(..).unwrap())) *)
UnwrapSome(k) ==
  IF k.kind = "Panic" THEN k
  ELSE IF k.kind = "None"
  THEN Panic("called Option::unwrap on a None value")
  ELSE Some(Cpu(k.val))

(* Ok(Cpu(kernel(..)?)) *)
Question(k) == IF k.kind = "Ok" THEN Ok(Cpu(k.val)) ELSE k

BackendData_add(s, r) ==
  IF BothCpu(s, r) THEN UnwrapSome(CpuArray_add(s.arr, r.arr)) ELSE None
BackendData_sub(s, r) ==
  IF BothCpu(s, r) THEN UnwrapSome(CpuArray_sub(s.arr, r.arr)) ELSE None
BackendData_mul(s, r) ==
  IF BothCpu(s, r) THEN UnwrapSome(CpuArray_mul(s.arr, r.arr)) ELSE None
BackendData_div(s, r) ==
  IF BothCpu(s, r) THEN UnwrapSome(CpuArray_div(s.arr, r.arr)) ELSE None

BackendData_matmul(s, r) ==
  IF BothCpu(s, r) THEN Question(CpuArray_matmul(s.arr, r.arr))
  ELSE Err("Could not perform MatMul for this backend type.")

BackendData_relu(s) ==
  IF s.tag = "Cpu" THEN Question(CpuArray_relu(s.arr))
  ELSE Err("Could not calculate ReLU for provided backend type")

(* The Cpu arm is commented out: every value takes the wildcard arm. *)
BackendData_exp(s) == Err("Could not calculate ReLU for provided backend type")

(* todo!() *)
BackendData_sum(s, dims) == Panic("not yet implemented")

BackendData_transpose(s) ==
  IF s.tag = "Cpu" THEN Question(CpuArray_transpose(s.arr))
  ELSE Err("Could not transpose for provided backend type")

BackendData_shape(s) == IF s.tag = "Cpu" THEN CpuArray_shape(s.arr) ELSE <<>>

BackendData_get(s, index, T) ==
  IF s.tag = "Cpu" THEN CpuArray_get(s.arr, index, T) ELSE None

BackendData_copy_from(s, other) ==
  IF BothCpu(s, other)
  THEN LET c == CpuArray_copy_from(s.arr, other.arr)
       IN [self |-> Cpu(c.self), out |-> c.out]
  ELSE [self |-> s, out |-> Unit]

----------------------------------------------------------------------------
(* The explored inputs. *)

DTypes == {"F32", "F64"}
SeqsUpTo(n, S) == UNION {[1..k -> S] : k \in 0..n}
Shapes == {s \in SeqsUpTo(MaxRank, 1..MaxSize) : Prod(s) <= MaxSize}

(* Element at row-major offset off of the array with the given seed. *)
Elem(seed, off) == (((off + 1) * (seed + 1)) % 5) - 1
Gen(dtype, shape, seed) ==
  Arr(dtype, shape, [i \in Idx(shape) |-> Elem(seed, Lin(shape, i))])

Arrays == {Gen(d, s, k) : d \in DTypes, s \in Shapes, k \in 0..MaxSeed}
Operands == {Cpu(a) : a \in Arrays} \cup {Metal}
CpuOperands == {Cpu(a) : a \in Arrays}

DimsArgs == SeqsUpTo(MaxRank, 0..MaxRank)
(* Indices tried on an array: every index in range, one past the end on    *)
(* every axis, one axis too many, one axis too few.                        *)
IndexArgs(a) ==
  Idx(a.shape) \cup {a.shape, a.shape \o <<0>>}
    \cup (IF a.shape = <<>> THEN {} ELSE {Tail(a.shape)})
FillValues == {-1, 0, 3, 16777217}
Targets == {"f32", "i32", "u8"}

NoRhs == [tag |-> "NoRhs", arr |-> NoVal]
Args(seq, ty, value) == [seq |-> seq, ty |-> ty, value |-> value]
NoArgs == Args(<<>>, "", 0)

----------------------------------------------------------------------------
(* The state: the value a call is made on (self), that value as it was     *)
(* when the call began (pre), the call's right operand and arguments, and  *)
(* its outcome.                                                            *)

Init ==
  /\ self \in Operands
  /\ pre = self
  /\ rhs = NoRhs
  /\ op = "new"
  /\ arg = NoArgs
  /\ res = [kind |-> "New", val |-> NoVal, msg |-> ""]

(* Every operation is a function of self and its arguments, so a behaviour *)
(* is one call on a constructed value.                                     *)
Idle == op = "new"

Call(name, r, a, out) ==
  /\ pre' = self
  /\ op' = name
  /\ rhs' = r
  /\ arg' = a
  /\ res' = out

(* Calls on the CpuArray held by self. *)

CpuZeros ==
  /\ Idle
  /\ \E s \in Shapes, d \in DTypes :
       /\ Call("CpuArray::zeros", NoRhs, Args(s, d, 0), Ok(CpuArray_zeros(s, d)))
       /\ UNCHANGED self

CpuOnes ==
  /\ Idle
  /\ \E s \in Shapes, d \in DTypes :
       /\ Call("CpuArray::ones", NoRhs, Args(s, d, 0), Ok(CpuArray_ones(s, d)))
       /\ UNCHANGED self

CpuFill ==
  /\ Idle
  /\ \E v \in FillValues, s \in Shapes, d \in DTypes :
       /\ Call("CpuArray::fill", NoRhs, Args(s, d, v), Ok(CpuArray_fill(v, s, d)))
       /\ UNCHANGED self

CpuAdd ==
  /\ Idle
  /\ self.tag = "Cpu"
  /\ \E b \in CpuOperands :
       Call("CpuArray::add", b, NoArgs, CpuArray_add(self.arr, b.arr))
  /\ UNCHANGED self

CpuSub ==
  /\ Idle
  /\ self.tag = "Cpu"
  /\ \E b \in CpuOperands :
       Call("CpuArray::sub", b, NoArgs, CpuArray_sub(self.arr, b.arr))
  /\ UNCHANGED self

CpuMul ==
  /\ Idle
  /\ self.tag = "Cpu"
  /\ \E b \in CpuOperands :
       Call("CpuArray::mul", b, NoArgs, CpuArray_mul(self.arr, b.arr))
  /\ UNCHANGED self

CpuDiv ==
  /\ Idle
  /\ self.tag = "Cpu"
  /\ \E b \in CpuOperands :
       Call("CpuArray::div", b, NoArgs, CpuArray_div(self.arr, b.arr))
  /\ UNCHANGED self

CpuMatmul ==
  /\ Idle
  /\ self.tag = "Cpu"
  /\ \E b \in CpuOperands :
       Call("CpuArray::matmul", b, NoArgs, CpuArray_matmul(self.arr, b.arr))
  /\ UNCHANGED self

CpuRelu ==
  /\ Idle
  /\ self.tag = "Cpu"
  /\ Call("CpuArray::relu", NoRhs, NoArgs, CpuArray_relu(self.arr))
  /\ UNCHANGED self

CpuExp ==
  /\ Idle
  /\ self.tag = "Cpu"
  /\ Call("CpuArray::exp", NoRhs, NoArgs, CpuArray_exp(self.arr))
  /\ UNCHANGED self

CpuSum ==
  /\ Idle
  /\ self.tag = "Cpu"
  /\ \E dims \in DimsArgs :
       Call("CpuArray::sum", NoRhs, Args(dims, "", 0), CpuArray_sum(self.arr, dims))
  /\ UNCHANGED self

CpuTranspose ==
  /\ Idle
  /\ self.tag = "Cpu"
  /\ Call("CpuArray::transpose", NoRhs, NoArgs, CpuArray_transpose(self.arr))
  /\ UNCHANGED self

CpuGet ==
  /\ Idle
  /\ self.tag = "Cpu"
  /\ \E index \in IndexArgs(self.arr), T \in Targets :
       Call("CpuArray::get", NoRhs, Args(index, T, 0), CpuArray_get(self.arr, index, T))
  /\ UNCHANGED self

CpuCopyFrom ==
  /\ Idle
  /\ self.tag = "Cpu"
  /\ \E b \in CpuOperands :
       LET c == CpuArray_copy_from(self.arr, b.arr)
       IN /\ self' = Cpu(c.self)
          /\ Call("CpuArray::copy_from", b, NoArgs, c.out)

CpuShape ==
  /\ Idle
  /\ self.tag = "Cpu"
  /\ Call("CpuArray::shape", NoRhs, NoArgs, Vec(CpuArray_shape(self.arr)))
  /\ UNCHANGED self

(* Calls through the Data surface of BackendData. *)

Zeros ==
  /\ Idle
  /\ \E s \in Shapes, d \in DTypes :
       /\ Call("BackendData::zeros", NoRhs, Args(s, d, 0), Ok(BackendData_zeros(self, s, d)))
       /\ UNCHANGED self

Ones ==
  /\ Idle
  /\ \E s \in Shapes, d \in DTypes :
       /\ Call("BackendData::ones", NoRhs, Args(s, d, 0), Ok(BackendData_ones(self, s, d)))
       /\ UNCHANGED self

Add ==
  /\ Idle
  /\ \E b \in Operands : Call("BackendData::add", b, NoArgs, BackendData_add(self, b))
  /\ UNCHANGED self

Sub ==
  /\ Idle
  /\ \E b \in Operands : Call("BackendData::sub", b, NoArgs, BackendData_sub(self, b))
  /\ UNCHANGED self

Mul ==
  /\ Idle
  /\ \E b \in Operands : Call("BackendData::mul", b, NoArgs, BackendData_mul(self, b))
  /\ UNCHANGED self

Div ==
  /\ Idle
  /\ \E b \in Operands : Call("BackendData::div", b, NoArgs, BackendData_div(self, b))
  /\ UNCHANGED self

Matmul ==
  /\ Idle
  /\ \E b \in Operands :
       Call("BackendData::matmul", b, NoArgs, BackendData_matmul(self, b))
  /\ UNCHANGED self

Relu ==
  /\ Idle
  /\ Call("BackendData::relu", NoRhs, NoArgs, BackendData_relu(self))
  /\ UNCHANGED self

Exp ==
  /\ Idle
  /\ Call("BackendData::exp", NoRhs, NoArgs, BackendData_exp(self))
  /\ UNCHANGED self

Sum ==
  /\ Idle
  /\ \E dims \in DimsArgs :
       Call("BackendData::sum", NoRhs, Args(dims, "", 0), BackendData_sum(self, dims))
  /\ UNCHANGED self

Transpose ==
  /\ Idle
  /\ Call("BackendData::transpose", NoRhs, NoArgs, BackendData_transpose(self))
  /\ UNCHANGED self

Shape ==
  /\ Idle
  /\ Call("BackendData::shape", NoRhs, NoArgs, Vec(BackendData_shape(self)))
  /\ UNCHANGED self

Get ==
  /\ Idle
  /\ \E index \in (IF self.tag = "Cpu" THEN IndexArgs(self.arr) ELSE {<<>>, <<0>>}),
        T \in Targets :
       Call("BackendData::get", NoRhs, Args(index, T, 0), BackendData_get(self, index, T))
  /\ UNCHANGED self

CopyFrom ==
  /\ Idle
  /\ \E b \in Operands :
       LET c == BackendData_copy_from(self, b)
       IN /\ self' = c.self
          /\ Call("BackendData::copy_from", b, NoArgs, c.out)

Next ==
  \/ CpuZeros \/ CpuOnes \/ CpuFill
  \/ CpuAdd \/ CpuSub \/ CpuMul \/ CpuDiv \/ CpuMatmul
  \/ CpuRelu \/ CpuExp \/ CpuSum \/ CpuTranspose
  \/ CpuGet \/ CpuCopyFrom \/ CpuShape
  \/ Zeros \/ Ones
  \/ Add \/ Sub \/ Mul \/ Div \/ Matmul
  \/ Relu \/ Exp \/ Sum \/ Transpose
  \/ Shape \/ Get \/ CopyFrom

Spec == Init /\ [][Next]_vars

----------------------------------------------------------------------------
(* Vocabulary of the properties. *)

Range(s) == {s[k] : k \in 1..Len(s)}
Distinct(s) == Cardinality(Range(s)) = Len(s)
InRange(dims, a) == \A k \in 1..Len(dims) : dims[k] < Rank(a)
Reorderings(s) == {p \in [1..Len(s) -> Range(s)] : Range(p) = Range(s)}

(* The entries of s on the axes (0-based, counted from k) outside D. *)
RECURSIVE Keep(_, _, _)
Keep(s, D, k) ==
  IF s = <<>> THEN <<>>
  ELSE (IF k \in D THEN <<>> ELSE <<Head(s)>>) \o Keep(Tail(s), D, k + 1)

(* Sum of the elements of a whose index agrees with i off the axes D. *)
SumOver(a, D, i) == SumSet(a.data, {j \in Idx(a.shape) : Keep(j, D, 0) = i})

ElementwiseOps ==
  {"CpuArray::add", "CpuArray::sub", "CpuArray::mul", "CpuArray::div",
   "BackendData::add", "BackendData::sub", "BackendData::mul", "BackendData::div"}
DispatchedElementwise ==
  {"BackendData::add", "BackendData::sub", "BackendData::mul", "BackendData::div"}
DispatchedBinary == DispatchedElementwise \cup {"BackendData::matmul"}
Returned(r) == r.kind \in {"Some", "Ok"}
Failed(r) == r.kind \in {"None", "Err"}
Dispatched ==
  DispatchedBinary \cup
    {"BackendData::zeros", "BackendData::ones", "BackendData::relu",
     "BackendData::exp", "BackendData::sum", "BackendData::transpose"}
(* The dispatcher's outcome is the kernel outcome k lifted through Cpu(_). *)
Forwards(k) ==
  /\ Returned(k) => (res.kind = k.kind /\ res.val = Cpu(k.val))
  /\ Failed(k) => Failed(res)
  /\ k.kind = "Panic" => res.kind = "Panic"
(* The array a kernel returned, or the one inside the dispatcher's Cpu(_). *)
Result == IF op \in Dispatched THEN res.val.arr ELSE res.val

----------------------------------------------------------------------------
(* C1: CpuArray::matmul on two F32 arrays meeting the preconditions        *)
(* returns Ok with the matrix product: rank 1 with equal lengths gives     *)
(* shape [1] holding sum_i a[i]*b[i]; shapes [M,K] and [K,N] give shape    *)
(* [M,N] with element (i,j) = sum_k a[i,k]*b[k,j].                          *)
C1_MatmulProduct ==
  (op = "CpuArray::matmul" /\ BothF32(self.arr, rhs.arr)) =>
    LET a == self.arr
        b == rhs.arr
    IN /\ (Rank(a) = 1 /\ Rank(b) = 1 /\ a.shape = b.shape) =>
            /\ res.kind = "Ok"
            /\ res.val.shape = <<1>>
            /\ res.val.data[<<0>>] =
                 SumSet([i \in 0..(a.shape[1] - 1) |-> a.data[<<i>>] * b.data[<<i>>]],
                        0..(a.shape[1] - 1))
       /\ (Rank(a) = 2 /\ Rank(b) = 2 /\ a.shape[2] = b.shape[1]) =>
            /\ res.kind = "Ok"
            /\ res.val.dtype = "F32"
            /\ res.val.shape = <<a.shape[1], b.shape[2]>>
            /\ \A i \in 0..(a.shape[1] - 1), j \in 0..(b.shape[2] - 1) :
                 res.val.data[<<i, j>>] =
                   SumSet([k \in 0..(a.shape[2] - 1) |->
                             a.data[<<i, k>>] * b.data[<<k, j>>]],
                          0..(a.shape[2] - 1))

(* A [2,3] by [3,2] product with a non-zero entry has been computed. *)
C1_Witness ==
  /\ op = "CpuArray::matmul"
  /\ BothF32(self.arr, rhs.arr)
  /\ self.arr.shape = <<2, 3>>
  /\ rhs.arr.shape = <<3, 2>>
  /\ res.kind = "Ok"
  /\ res.val.shape = <<2, 2>>
  /\ res.val.data[<<1, 1>>] # 0

(* C2: no operation aborts on a violated precondition: matmul returns an   *)
(* error value when the ranks are not both 1 or both 2 or the inner        *)
(* dimensions disagree, sum returns an error value when an axis in dims is *)
(* >= the rank; every call returns a new array or a single error.          *)
C2_NoAbort ==
  /\ op = "CpuArray::matmul" =>
       LET a == self.arr
           b == rhs.arr
           both1 == Rank(a) = 1 /\ Rank(b) = 1
           both2 == Rank(a) = 2 /\ Rank(b) = 2
       IN /\ res.kind \in {"Ok", "Err"}
          /\ (~both1 /\ ~both2) => res.kind = "Err"
          /\ (both1 /\ a.shape # b.shape) => res.kind = "Err"
          /\ (both2 /\ a.shape[2] # b.shape[1]) => res.kind = "Err"
  /\ op = "CpuArray::sum" =>
       /\ res.kind \in {"Ok", "Err"}
       /\ ~InRange(arg.seq, self.arr) => res.kind = "Err"

(* C3: for an F32 array and a non-empty list of distinct in-range axes in  *)
(* any order, sum returns the array whose shape is the shape without the   *)
(* named axes (the others in order) and whose elements are the sums over   *)
(* the removed axes; every reordering of dims gives the same result.       *)
C3_SumRemovesAxes ==
  (/\ op = "CpuArray::sum"
   /\ self.arr.dtype = "F32"
   /\ arg.seq # <<>>
   /\ Distinct(arg.seq)
   /\ InRange(arg.seq, self.arr)) =>
    LET a == self.arr
        D == Range(arg.seq)
        s == Keep(a.shape, D, 0)
    IN /\ res.kind = "Ok"
       /\ res.val.dtype = "F32"
       /\ res.val.shape = s
       /\ \A i \in Idx(s) : res.val.data[i] = SumOver(a, D, i)
       /\ \A p \in Reorderings(arg.seq) : CpuArray_sum(a, p) = res

(* dims [2,1] given in descending order on a rank-3 array left the first   *)
(* axis, of extent 2.                                                      *)
C3_Witness ==
  /\ op = "CpuArray::sum"
  /\ self.arr.dtype = "F32"
  /\ self.arr.shape = <<2, 3, 1>>
  /\ arg.seq = <<2, 1>>
  /\ res.kind = "Ok"
  /\ res.val.shape = <<2>>
  /\ res.val.data[<<0>>] # res.val.data[<<1>>]

(* C4 as stated: whenever sum over a set of in-range axes returns an       *)
(* array, its rank is max(1, rank(a) - |dims|): shape [1] holding the      *)
(* total for empty dims, and rank 1, not 0, when reducing over all axes.   *)
C4_SumRankAtLeastOne ==
  (/\ op = "CpuArray::sum"
   /\ Distinct(arg.seq)
   /\ InRange(arg.seq, self.arr)
   /\ res.kind = "Ok") =>
    /\ Len(res.val.shape) = Max2(1, Rank(self.arr) - Len(arg.seq))
    /\ arg.seq = <<>> =>
         /\ res.val.shape = <<1>>
         /\ res.val.data[<<0>>] = SumOver(self.arr, 0..(Rank(self.arr) - 1), <<>>)

(* C4 amended: whenever sum over a set of in-range axes returns an array,  *)
(* its rank is rank(a) - |dims| for non-empty dims (rank 0 when reducing   *)
(* over all axes), and for empty dims it has shape [1] holding the total.  *)
C4_SumRank ==
  (/\ op = "CpuArray::sum"
   /\ Distinct(arg.seq)
   /\ InRange(arg.seq, self.arr)
   /\ res.kind = "Ok") =>
    /\ arg.seq # <<>> => Len(res.val.shape) = Rank(self.arr) - Len(arg.seq)
    /\ arg.seq = <<>> =>
         /\ res.val.shape = <<1>>
         /\ res.val.data[<<0>>] = SumOver(self.arr, 0..(Rank(self.arr) - 1), <<>>)

(* A rank-2 array reduced over both of its axes gave a rank-0 array. *)
C4_Witness ==
  /\ op = "CpuArray::sum"
  /\ Rank(self.arr) = 2
  /\ Range(arg.seq) = {0, 1}
  /\ Len(arg.seq) = 2
  /\ res.kind = "Ok"
  /\ res.val.shape = <<>>

(* C5: add, sub, mul and div never broadcast: operands of different shapes *)
(* make the operation fail with an error and no result array; a result is  *)
(* produced only when the shapes are equal.                                *)
C5_NoBroadcast ==
  (op \in ElementwiseOps /\ BothCpu(self, rhs)) =>
    /\ Returned(res) => self.arr.shape = rhs.arr.shape
    /\ (BothF32(self.arr, rhs.arr) /\ self.arr.shape # rhs.arr.shape) => Failed(res)

(* C6: through the Data surface the factories yield the neutral elements:  *)
(* every element of zeros(s, d) is 0 and of ones(s, d) is 1, so that       *)
(* a.add(a.zeros(s, d)) and a.mul(a.ones(s, d)) equal a elementwise.       *)
C6_NeutralElements ==
  /\ (op = "BackendData::zeros" /\ self.tag = "Cpu") =>
       /\ \A i \in Idx(arg.seq) : Result.data[i] = 0
       /\ (arg.seq = self.arr.shape /\ arg.ty = self.arr.dtype) =>
            LET r == BackendData_add(self, res.val)
            IN Returned(r) /\ r.val.arr.data = self.arr.data
  /\ (op = "BackendData::ones" /\ self.tag = "Cpu") =>
       /\ \A i \in Idx(arg.seq) : Result.data[i] = 1
       /\ (arg.seq = self.arr.shape /\ arg.ty = self.arr.dtype) =>
            LET r == BackendData_mul(self, res.val)
            IN Returned(r) /\ r.val.arr.data = self.arr.data

(* C7: every binary operation of BackendData (add, sub, mul, div, matmul)  *)
(* on a mixed pairing, one operand Cpu and the other Metal in either       *)
(* order, fails with a BackendMismatch error: the caller receives an error *)
(* value carrying a message (an absent result is not one), no result       *)
(* array is produced, the call does not abort, and both operands are left  *)
(* as they were.                                                           *)
C7_MixedPairingError ==
  (/\ op \in DispatchedBinary
   /\ {self.tag, rhs.tag} = {"Cpu", "Metal"}) =>
    /\ res.kind = "Err"
    /\ res.msg # ""
    /\ res.val = NoVal
    /\ self = pre

(* C8: copy_from overwrites self only when dtypes and shapes agree, and    *)
(* then self equals src elementwise; on any mismatch (broadcast-compatible *)
(* shapes included) self keeps its elements and the caller gets an error.  *)
C8_CopyFromChecked ==
  (op \in {"CpuArray::copy_from", "BackendData::copy_from"} /\ BothCpu(pre, rhs)) =>
    LET a == pre.arr
        b == rhs.arr
    IN /\ (a.dtype = b.dtype /\ a.shape = b.shape) =>
            /\ res.kind = "Unit"
            /\ self.arr.data = b.data
       /\ (a.dtype # b.dtype \/ a.shape # b.shape) =>
            /\ self = pre
            /\ res.kind = "Err"

(* C9: the dispatcher forwards faithfully: on Cpu operands every method of *)
(* the Data surface returns Cpu(r) exactly when the kernel of the same     *)
(* name returns r, and an error exactly when that kernel fails.            *)
C9_FaithfulForwarding ==
  /\ (op \in DispatchedBinary /\ BothCpu(self, rhs)) =>
       Forwards(CASE op = "BackendData::add" -> CpuArray_add(self.arr, rhs.arr)
                  [] op = "BackendData::sub" -> CpuArray_sub(self.arr, rhs.arr)
                  [] op = "BackendData::mul" -> CpuArray_mul(self.arr, rhs.arr)
                  [] op = "BackendData::div" -> CpuArray_div(self.arr, rhs.arr)
                  [] op = "BackendData::matmul" -> CpuArray_matmul(self.arr, rhs.arr))
  /\ (op = "BackendData::relu" /\ self.tag = "Cpu") => Forwards(CpuArray_relu(self.arr))
  /\ (op = "BackendData::exp" /\ self.tag = "Cpu") => Forwards(CpuArray_exp(self.arr))
  /\ (op = "BackendData::sum" /\ self.tag = "Cpu") =>
       Forwards(CpuArray_sum(self.arr, arg.seq))
  /\ (op = "BackendData::transpose" /\ self.tag = "Cpu") =>
       Forwards(CpuArray_transpose(self.arr))
  /\ (op = "BackendData::shape" /\ self.tag = "Cpu") =>
       res = Vec(CpuArray_shape(self.arr))
  /\ (op = "BackendData::get" /\ self.tag = "Cpu") =>
       res = CpuArray_get(self.arr, arg.seq, arg.ty)

(* C10: dtype closure: for d in {F32, F64} and two arrays of dtype d and   *)
(* equal shape, add, sub, mul and div succeed with an array of dtype d and *)
(* that shape; operands of different dtypes are rejected with an error     *)
(* rather than an absent result.                                           *)
C10_DTypeClosure ==
  (op \in ElementwiseOps /\ BothCpu(self, rhs)) =>
    LET a == self.arr
        b == rhs.arr
    IN /\ (a.dtype = b.dtype /\ a.shape = b.shape) =>
            /\ res.kind = "Some"
            /\ Result.dtype = a.dtype
            /\ Result.shape = a.shape
       /\ a.dtype # b.dtype => res.kind = "Err"

====
